---- MODULE Spec2Model ----
(***************************************************************************)
(* Models of the command-line scripts of the geoscience-skills repository. *)
(*                                                                         *)
(*   Spec        obspy/scripts/batch_process.py (main, batch_process,      *)
(*               process_file) and dlisio/scripts/dlis_to_las.py (main)    *)
(*   SpecSkills  scripts/validate_skills.py                                *)
(*   SpecAvo     bruges/scripts/avo_analysis.py                            *)
(*   SpecTools   the single-call scripts: obspy fetch_earthquake (main),   *)
(*               segyio extract_subset, dlisio dlis_to_las, lasio          *)
(*               las_to_csv and merge_curves, gempy validate_input,        *)
(*               pooch create_registry                                     *)
(*                                                                         *)
(* Library calls (obspy read/filter/write, dlisio load, yaml, json) are    *)
(* modelled by their outcome: each either returns or raises.               *)
(***************************************************************************)
EXTENDS Integers, Sequences, FiniteSets, TLC

VARIABLES
    prog,       \* the script that was started
    pc,         \* position of the main process of the script
    args,       \* parsed command-line arguments (argparse namespace)
    cwd,        \* regular files present in the input directory
    files,      \* batch_process / dlis main: the collected input files
    tasks,      \* one record per collected file: process_file's progress
    submitted,  \* number of files handed to executor.submit
    results,    \* batch_process: the results list
    disk,       \* output path -> input file whose stream was written last
    clobbered,  \* input files whose written output another task replaced
    summary,    \* counters printed at the end of the run
    exitStatus, \* process exit status, None while running
    root,       \* validate_skills: entries of the repository root
    skill_dirs, \* validate_skills: the skill directories found, sorted
    market,     \* validate_skills: .claude-plugin/marketplace.json
    skIdx,      \* validate_skills: number of skills validated so far
    total_errors,   \* validate_skills: main's error counter
    total_warnings, \* validate_skills: main's warning counter
    printed,    \* validate_skills: issue lines printed so far, per level
    mp_issues,  \* validate_skills: issues returned by validate_marketplace
    out,        \* validate_skills: status words printed (PASS, FAIL, PASSED, ...)
    layers,     \* avo_analysis: <<layer1, layer2>>
    avo,        \* avo_analysis: results computed so far
    inp,        \* single-call scripts: the arguments and the files they read
    res         \* single-call scripts: what the call returned, raised or wrote

vars == <<prog, pc, args, cwd, files, tasks, submitted, results, disk, clobbered,
          summary, exitStatus, root, skill_dirs, market, skIdx, total_errors,
          total_warnings, printed, mp_issues, out, layers, avo, inp, res>>

batchVars == <<args, cwd, files, tasks, submitted, results, disk, clobbered>>
skillVars == <<root, skill_dirs, market, skIdx, total_errors, total_warnings, printed,
               mp_issues, out>>
avoVars == <<layers, avo>>
toolVars == <<inp, res>>

\* Python's None and a present value, for optional values of any type.
Nil == <<>>
Some(x) == <<x>>

(***************************************************************************)
(* Bounds of the model.                                                    *)
(***************************************************************************)
MaxFiles == 3       \* at most this many regular files in the input directory
MaxWorkers == 2     \* --workers ranges over 0..MaxWorkers
MaxEntries == 3     \* at most this many entries in the repository root
MaxPlugins == 2     \* at most this many entries in marketplace.json's plugins

(***************************************************************************)
(* Small helpers.                                                          *)
(***************************************************************************)
Range(s) == {s[i] : i \in DOMAIN s}

\* All orders in which the elements of a finite set can be listed.
RECURSIVE Perms(_)
Perms(S) ==
    IF S = {} THEN {<<>>}
    ELSE UNION {{<<x>> \o p : p \in Perms(S \ {x})} : x \in S}

(***************************************************************************)
(* obspy/scripts/batch_process.py                                          *)
(***************************************************************************)
\* Regular files that may lie in the input directory: name stem and suffix.
F(stem, ext) == [stem |-> stem, ext |-> ext]
DirEntries ==
    {F("a", "mseed"), F("b", "mseed"), F("a", "sac"), F("b", "seed"), F("a", "txt")}
Directories == {d \in SUBSET DirEntries : Cardinality(d) <= MaxFiles}

\* Values a --freq/--freqmin/--freqmax option can carry (type=float).
Freqs == {Nil, Some(0), Some(2)}
Filters == {Nil, Some("bandpass"), Some("highpass"), Some("lowpass")}
Formats == {"MSEED", "SAC", "GSE2", "SEGY"}

\* Python truthiness of an optional number: None and 0.0 are false.
Truthy(o) == o # Nil /\ o[1] # 0
\* Python's  a or b.
PyOr(a, b) == IF Truthy(a) THEN a ELSE b

\* main: the argument checks that end in parser.error (exit status 2).
ArgsRejected(a) ==
    \/ a.filter = Some("bandpass") /\ (a.freqmin = Nil \/ a.freqmax = Nil)
    \/ a.filter = Some("highpass") /\ a.freqmin = Nil /\ a.freq = Nil
    \/ a.filter = Some("lowpass") /\ a.freqmax = Nil /\ a.freq = Nil

\* process_file: the keyword arguments st.filter is called with, Nil when the
\* filter step is skipped.
FilterCall(a) ==
    IF a.filter = Nil THEN Nil
    ELSE IF a.filter = Some("bandpass")
        THEN Some([type |-> "bandpass", freqmin |-> a.freqmin, freqmax |-> a.freqmax])
    ELSE IF a.filter = Some("highpass")
        THEN Some([type |-> "highpass", freq |-> PyOr(a.freq, a.freqmin)])
    ELSE IF a.filter = Some("lowpass")
        THEN Some([type |-> "lowpass", freq |-> PyOr(a.freq, a.freqmax)])
    ELSE Nil

\* obspy's highpass/lowpass divide the corner frequency by the Nyquist
\* frequency: a call with freq=None raises TypeError.
FilterRaises(c) == c # Nil /\ c[1].type # "bandpass" /\ c[1].freq = Nil

\* process_file: ext_map.get(output_format, ".mseed").
ext_map(fmt) ==
    CASE fmt = "MSEED" -> "mseed"
      [] fmt = "SAC" -> "sac"
      [] fmt = "GSE2" -> "gse"
      [] fmt = "SEGY" -> "sgy"
      [] OTHER -> "mseed"

\* process_file: output_path / (input_path.stem + ext).
output_file(f, a) == F(f.stem, ext_map(a.format))
OutPaths == {F(e.stem, ext_map(fmt)) : e \in DirEntries, fmt \in Formats}

\* Variant of ErrorResult: the except clause stores the message but leaves
\* the status untouched.
ErrorResult_KeepStatus(r, e) == [r EXCEPT !.error = Some(e)]

\* process_file: the result dict as first built, and after the except clause.
NewResult(f) == [file |-> f, status |-> "success", output |-> Nil, error |-> Nil]
ErrorResult(r, e) == [r EXCEPT !.status = "error", !.error = Some(e)]

\* Path.glob("*.<ext>") on the input directory.
Glob(d, ext) == {f \in d : f.ext = ext}

\* batch_process: the files collected for an input argument; glob results
\* come in directory order, which is arbitrary.
CollectedFiles(a, d) ==
    CASE a.input.kind = "file" -> {<<a.input.file>>}
      [] a.input.kind = "dir" ->
            {p1 \o p2 \o p3 : p1 \in Perms(Glob(d, "mseed")),
                              p2 \in Perms(Glob(d, "sac")),
                              p3 \in Perms(Glob(d, "seed"))}
      [] OTHER -> Perms({f \in d : f.stem = a.input.stem})

NewTask(f) ==
    [file |-> f, stage |-> "new", result |-> NewResult(f), filterCall |-> Nil,
     attempts |-> 0]

\* Argument namespaces of the runs explored: every input kind and worker
\* count with the default processing options, and every filter/frequency/
\* format combination on a single input file.
InputArgs(d) ==
    {[kind |-> "dir"]} \cup {[kind |-> "file", file |-> f] : f \in d}
        \cup {[kind |-> "pattern", stem |-> s] : s \in {"a", "b"}}
BatchArgs(d) ==
    {[input |-> i, workers |-> w, filter |-> Nil, freqmin |-> Nil, freqmax |-> Nil,
      freq |-> Nil, format |-> "MSEED"] : i \in InputArgs(d), w \in 0..MaxWorkers}
FilterArgs(d) ==
    {[input |-> [kind |-> "file", file |-> f], workers |-> 1, filter |-> ft,
      freqmin |-> lo, freqmax |-> hi, freq |-> fr, format |-> fmt] :
        f \in d, ft \in Filters, lo \in Freqs, hi \in Freqs, fr \in Freqs,
        fmt \in Formats}

NoSummary == [success |-> 0, errors |-> 0]

InitBatch ==
    /\ prog = "batch_process"
    /\ pc = "main"
    /\ cwd \in Directories
    /\ args \in BatchArgs(cwd) \cup
                (IF cwd = {F("a", "mseed")} THEN FilterArgs(cwd) ELSE {})
    /\ files = <<>>
    /\ tasks = <<>>
    /\ submitted = 0
    /\ results = <<>>
    /\ disk = [p \in OutPaths |-> Nil]
    /\ clobbered = {}
    /\ summary = NoSummary
    /\ exitStatus = Nil

\* Set task i to t.
SetTask(i, t) == tasks' = [tasks EXCEPT ![i] = t]

\* Tasks a process is currently executing process_file on.
Running == {i \in DOMAIN tasks : tasks[i].stage \in {"read", "write"}}

\* main, lines 271-279: parse the arguments and validate the filter options.
Main ==
    /\ prog = "batch_process" /\ pc = "main"
    /\ IF ArgsRejected(args)
          THEN pc' = "exited" /\ exitStatus' = Some(2)
          ELSE pc' = "collect" /\ UNCHANGED exitStatus
    /\ UNCHANGED <<prog, batchVars, summary>>

\* batch_process, lines 150-182: collect the files and choose the path.
\* ProcessPoolExecutor(max_workers=w) raises ValueError for w <= 0.
NextPc(fl, w) ==
    IF fl = <<>> THEN "returned"
    ELSE IF w = 1 THEN "seq"
    ELSE IF w <= 0 THEN "raised"
    ELSE "pool"

Collect ==
    /\ prog = "batch_process" /\ pc = "collect"
    /\ \E fl \in CollectedFiles(args, cwd) :
          /\ files' = fl
          /\ tasks' = [i \in DOMAIN fl |-> NewTask(fl[i])]
          /\ pc' = NextPc(fl, args.workers)
          /\ exitStatus' = CASE pc' = "returned" -> Some(0)
                             [] pc' = "raised" -> Some(1)
                             [] OTHER -> exitStatus
    /\ UNCHANGED <<prog, args, cwd, submitted, results, disk, clobbered, summary>>

\* batch_process, lines 175-177: the sequential loop calls process_file on
\* the next file.
SeqStart ==
    /\ prog = "batch_process" /\ pc = "seq"
    /\ Len(results) < Len(files)
    /\ LET i == Len(results) + 1 IN
          /\ tasks[i].stage = "new"
          /\ SetTask(i, [tasks[i] EXCEPT !.stage = "read", !.attempts = @ + 1])
    /\ UNCHANGED <<prog, pc, args, cwd, files, submitted, results, disk, clobbered,
                   summary, exitStatus>>

\* batch_process, lines 183-186: executor.submit for the next file.
Submit ==
    /\ prog = "batch_process" /\ pc = "pool"
    /\ submitted < Len(files)
    /\ submitted' = submitted + 1
    /\ SetTask(submitted + 1, [tasks[submitted + 1] EXCEPT !.stage = "queued"])
    /\ UNCHANGED <<prog, pc, args, cwd, files, results, disk, clobbered, summary,
                   exitStatus>>

\* ProcessPoolExecutor: an idle worker process takes the oldest queued call.
WorkerStart ==
    /\ prog = "batch_process" /\ pc = "pool"
    /\ Cardinality(Running) < args.workers
    /\ \E i \in DOMAIN tasks :
          /\ tasks[i].stage = "queued"
          /\ \A j \in 1..(i - 1) : tasks[j].stage # "queued"
          /\ SetTask(i, [tasks[i] EXCEPT !.stage = "read", !.attempts = @ + 1])
    /\ UNCHANGED <<prog, pc, args, cwd, files, submitted, results, disk, clobbered,
                   summary, exitStatus>>

\* process_file, lines 63-102: read the stream and process it; any library
\* call may raise, before the filter step or in or after it.
ReadAndProcess(i) ==
    /\ prog = "batch_process" /\ tasks[i].stage = "read"
    /\ \E outcome \in {"ok", "read raises", "processing raises"} :
          /\ (outcome = "ok") => ~FilterRaises(FilterCall(args))
          /\ SetTask(i,
            CASE outcome = "ok" ->
                    [tasks[i] EXCEPT !.stage = "write", !.filterCall = FilterCall(args)]
              [] outcome = "read raises" ->
                    [tasks[i] EXCEPT !.stage = "done",
                                     !.result = ErrorResult(@, outcome)]
              [] OTHER ->
                    [tasks[i] EXCEPT !.stage = "done",
                                     !.filterCall = FilterCall(args),
                                     !.result = ErrorResult(@, outcome)])
    /\ UNCHANGED <<prog, pc, args, cwd, files, submitted, results, disk, clobbered,
                   summary, exitStatus>>

\* process_file, lines 104-123: write the stream to the output file and fill
\* in the result; st.write may raise, and so may the stats that follow it.
WriteOutput(i) ==
    /\ prog = "batch_process" /\ tasks[i].stage = "write"
    /\ LET o == output_file(tasks[i].file, args) IN
       \E outcome \in {"ok", "write raises", "stats raise"} :
          IF outcome = "write raises"
             THEN /\ SetTask(i, [tasks[i] EXCEPT !.stage = "done",
                                                 !.result = ErrorResult(@, outcome)])
                  /\ UNCHANGED <<disk, clobbered>>
             ELSE /\ disk' = [disk EXCEPT ![o] = Some(tasks[i].file)]
                  /\ clobbered' = IF disk[o] # Nil /\ disk[o] # Some(tasks[i].file)
                                     THEN clobbered \cup {disk[o][1]}
                                     ELSE clobbered
                  /\ SetTask(i, [tasks[i] EXCEPT
                        !.stage = "done",
                        !.result = IF outcome = "ok"
                                      THEN [@ EXCEPT !.output = Some(o)]
                                      ELSE ErrorResult([@ EXCEPT !.output = Some(o)],
                                                       outcome)])
    /\ UNCHANGED <<prog, pc, args, cwd, files, submitted, results, summary, exitStatus>>

\* Variant of SeqAppend: a file whose result is an error is handed to
\* process_file once more before its result is kept.
SeqAppend_Retry ==
    /\ prog = "batch_process" /\ pc = "seq"
    /\ Len(results) < Len(files)
    /\ LET i == Len(results) + 1 IN
          /\ tasks[i].stage = "done"
          /\ IF tasks[i].result.status = "error" /\ tasks[i].attempts < 2
                THEN /\ SetTask(i, [tasks[i] EXCEPT !.stage = "new",
                                        !.result = NewResult(tasks[i].file)])
                     /\ UNCHANGED results
                ELSE /\ results' = Append(results, tasks[i].result)
                     /\ SetTask(i, [tasks[i] EXCEPT !.stage = "collected"])
    /\ UNCHANGED <<prog, pc, args, cwd, files, submitted, disk, clobbered, summary,
                   exitStatus>>

\* batch_process, lines 177-179: process_file returned, append its result.
SeqAppend ==
    /\ prog = "batch_process" /\ pc = "seq"
    /\ Len(results) < Len(files)
    /\ LET i == Len(results) + 1 IN
          /\ tasks[i].stage = "done"
          /\ results' = Append(results, tasks[i].result)
          /\ SetTask(i, [tasks[i] EXCEPT !.stage = "collected"])
    /\ UNCHANGED <<prog, pc, args, cwd, files, submitted, disk, clobbered, summary,
                   exitStatus>>

\* batch_process, lines 188-193: as_completed yields a finished future that
\* it has not yielded yet, in completion order.
AsCompleted ==
    /\ prog = "batch_process" /\ pc = "pool"
    /\ submitted = Len(files)
    /\ \E i \in DOMAIN tasks :
          /\ tasks[i].stage = "done"
          /\ results' = Append(results, tasks[i].result)
          /\ SetTask(i, [tasks[i] EXCEPT !.stage = "collected"])
    /\ UNCHANGED <<prog, pc, args, cwd, files, submitted, disk, clobbered, summary,
                   exitStatus>>

\* batch_process, lines 195-206: count the outcomes, print them and return.
CountStatus(rs, st) == Cardinality({i \in DOMAIN rs : rs[i].status = st})

\* Variant of Summarize: the function returns from inside the result loop,
\* as soon as one result has been appended.
Summarize_Early ==
    /\ prog = "batch_process" /\ pc \in {"seq", "pool"}
    /\ \E i \in DOMAIN tasks : tasks[i].stage = "collected"
    /\ summary' = [success |-> CountStatus(results, "success"),
                   errors |-> CountStatus(results, "error")]
    /\ pc' = "returned"
    /\ exitStatus' = Some(0)
    /\ UNCHANGED <<prog, batchVars>>

Summarize ==
    /\ prog = "batch_process" /\ pc \in {"seq", "pool"}
    /\ \A i \in DOMAIN tasks : tasks[i].stage = "collected"
    /\ summary' = [success |-> CountStatus(results, "success"),
                   errors |-> CountStatus(results, "error")]
    /\ pc' = "returned"
    /\ exitStatus' = Some(0)
    /\ UNCHANGED <<prog, batchVars>>

(***************************************************************************)
(* dlisio/scripts/dlis_to_las.py: main (conversion mode)                   *)
(***************************************************************************)
DlisEntries == {F("x", "dlis"), F("y", "dlis"), F("z", "dlis"), F("w", "dlis")}
DlisDirectories == {d \in SUBSET DlisEntries : Cardinality(d) <= MaxFiles}
DlisArgs(d) ==
    {[input |-> i] :
        i \in {[kind |-> "dir"], [kind |-> "missing"]}
                \cup {[kind |-> "file", file |-> f] : f \in d}}

InitDlis ==
    /\ prog = "dlis_to_las"
    /\ pc = "main"
    /\ cwd \in DlisDirectories
    /\ args \in DlisArgs(cwd)
    /\ files = <<>>
    /\ tasks = <<>>
    /\ submitted = 0
    /\ results = <<>>
    /\ disk = [p \in OutPaths |-> Nil]
    /\ clobbered = {}
    /\ summary = NoSummary
    /\ exitStatus = Nil

\* main, lines 194-248: choose the mode from the kind of the input path.
DlisMain ==
    /\ prog = "dlis_to_las" /\ pc = "main"
    /\ CASE args.input.kind = "file" ->
                /\ files' = <<args.input.file>>
                /\ pc' = "single"
                /\ UNCHANGED exitStatus
         [] args.input.kind = "dir" ->
                /\ files' \in Perms(Glob(cwd, "dlis"))
                /\ pc' = "loop"
                /\ UNCHANGED exitStatus
         [] OTHER ->
                /\ files' = <<>>
                /\ pc' = "exited"
                /\ exitStatus' = Some(1)
    /\ UNCHANGED <<prog, args, cwd, tasks, submitted, results, disk, clobbered, summary>>

\* The outcome main records for one dlis_to_las call.
Converted(f, ok) ==
    IF ok THEN NewResult(f) ELSE ErrorResult(NewResult(f), "dlis_to_las raises")

\* main, lines 206-219: single-file mode; an exception ends in exit(1).
DlisConvertFile ==
    /\ prog = "dlis_to_las" /\ pc = "single"
    /\ \E ok \in BOOLEAN :
          /\ results' = Append(results, Converted(files[1], ok))
          /\ pc' = IF ok THEN "returned" ELSE "exited"
          /\ exitStatus' = IF ok THEN Some(0) ELSE Some(1)
    /\ UNCHANGED <<prog, args, cwd, files, tasks, submitted, disk, clobbered, summary>>

\* Variant of DlisConvertNext: the except clause of the directory loop ends
\* the program, as the single-file mode does.
DlisConvertNext_Exit ==
    /\ prog = "dlis_to_las" /\ pc = "loop"
    /\ Len(results) < Len(files)
    /\ \E ok \in BOOLEAN :
          /\ results' = Append(results, Converted(files[Len(results) + 1], ok))
          /\ summary' = IF ok THEN [summary EXCEPT !.success = @ + 1]
                              ELSE [summary EXCEPT !.errors = @ + 1]
          /\ pc' = IF ok THEN pc ELSE "exited"
          /\ exitStatus' = IF ok THEN exitStatus ELSE Some(1)
    /\ UNCHANGED <<prog, args, cwd, files, tasks, submitted, disk, clobbered>>

\* main, lines 228-242: directory mode, one iteration of the loop over
\* input_path.glob("*.dlis").
DlisConvertNext ==
    /\ prog = "dlis_to_las" /\ pc = "loop"
    /\ Len(results) < Len(files)
    /\ \E ok \in BOOLEAN :
          /\ results' = Append(results, Converted(files[Len(results) + 1], ok))
          /\ summary' = IF ok THEN [summary EXCEPT !.success = @ + 1]
                              ELSE [summary EXCEPT !.errors = @ + 1]
    /\ UNCHANGED <<prog, pc, args, cwd, files, tasks, submitted, disk, clobbered,
                   exitStatus>>

\* main, line 244: the loop is over, print the summary and return.
DlisSummary ==
    /\ prog = "dlis_to_las" /\ pc = "loop"
    /\ Len(results) = Len(files)
    /\ pc' = "returned"
    /\ exitStatus' = Some(0)
    /\ UNCHANGED <<prog, batchVars, summary>>

(***************************************************************************)
(* Specification of the file-batch scripts.                                *)
(***************************************************************************)
NoIssues == [ERROR |-> 0, WARN |-> 0]
IdleSkills ==
    /\ root = {} /\ skill_dirs = <<>> /\ market = Nil /\ skIdx = 0
    /\ total_errors = 0 /\ total_warnings = 0 /\ printed = NoIssues
    /\ mp_issues = <<>> /\ out = <<>>
IdleAvo == layers = <<>> /\ avo = <<>>
IdleTools == inp = Nil /\ res = Nil

Init == (InitBatch \/ InitDlis) /\ IdleSkills /\ IdleAvo /\ IdleTools

Next ==
    \/ (Main /\ UNCHANGED <<skillVars, avoVars, toolVars>>)
    \/ (Collect /\ UNCHANGED <<skillVars, avoVars, toolVars>>)
    \/ (SeqStart /\ UNCHANGED <<skillVars, avoVars, toolVars>>)
    \/ (Submit /\ UNCHANGED <<skillVars, avoVars, toolVars>>)
    \/ (WorkerStart /\ UNCHANGED <<skillVars, avoVars, toolVars>>)
    \/ (\E i \in DOMAIN tasks : ReadAndProcess(i) /\ UNCHANGED <<skillVars, avoVars, toolVars>>)
    \/ (\E i \in DOMAIN tasks : WriteOutput(i) /\ UNCHANGED <<skillVars, avoVars, toolVars>>)
    \/ (SeqAppend /\ UNCHANGED <<skillVars, avoVars, toolVars>>)
    \/ (AsCompleted /\ UNCHANGED <<skillVars, avoVars, toolVars>>)
    \/ (Summarize /\ UNCHANGED <<skillVars, avoVars, toolVars>>)
    \/ (DlisMain /\ UNCHANGED <<skillVars, avoVars, toolVars>>)
    \/ (DlisConvertFile /\ UNCHANGED <<skillVars, avoVars, toolVars>>)
    \/ (DlisConvertNext /\ UNCHANGED <<skillVars, avoVars, toolVars>>)
    \/ (DlisSummary /\ UNCHANGED <<skillVars, avoVars, toolVars>>)

Spec == Init /\ [][Next]_vars

(***************************************************************************)
(* Claims about batch_process.py and dlis_to_las.py, checked under Spec.   *)
(***************************************************************************)
Batch == prog = "batch_process"
DlisDirMode == prog = "dlis_to_las" /\ args.input.kind = "dir"
Finished(i) == tasks[i].stage \in {"done", "collected"}

\* C1: with workers >= 1, whatever the order in which the worker processes
\* complete, batch_process returns exactly one result per collected file:
\* the 'file' values of the results are the collected files, none missing
\* and none twice.
Thm_C1_OneResultPerFile ==
    (Batch /\ pc = "returned" /\ args.workers >= 1) =>
        /\ Len(results) = Len(files)
        /\ \A i \in DOMAIN files :
              Cardinality({j \in DOMAIN results : results[j].file = files[i]}) = 1
        /\ \A j \in DOMAIN results : results[j].file \in Range(files)

\* A pool run over several files returned its results in an order other
\* than the order of submission.
Wit_C1_PoolOutOfOrder ==
    /\ Batch /\ pc = "returned" /\ args.workers >= 2
    /\ Len(files) >= 3
    /\ results[1].file = files[3]

\* C2: no two distinct collected input files are written to the same output
\* path, so no task overwrites the output of another task.
Cex_C2_NoSharedOutput ==
    Batch =>
        /\ clobbered = {}
        /\ \A i, j \in DOMAIN tasks :
              (i # j /\ tasks[i].result.output # Nil /\ tasks[j].result.output # Nil)
                  => tasks[i].result.output # tasks[j].result.output

\* C3: process_file always returns a result dict: its status is 'success'
\* or 'error'; a failure while reading, processing or writing gives status
\* 'error' with an error message that is not None; otherwise the status is
\* 'success' and the error is None.
Thm_C3_ProcessFileResult ==
    Batch =>
        \A i \in DOMAIN tasks :
            LET r == tasks[i].result IN
            /\ tasks[i].stage \in {"new", "queued", "read", "write", "done", "collected"}
            /\ r.status \in {"success", "error"}
            /\ r.file = tasks[i].file
            /\ (r.status = "error") <=> (r.error # Nil)
            /\ r.status = "error" => Finished(i)
            /\ (Finished(i) /\ r.status = "success") => r.output # Nil

\* process_file failed after st.write had succeeded: the result is an error
\* that carries the output path.
Wit_C3_ErrorAfterWrite ==
    /\ Batch
    /\ \E i \in DOMAIN tasks :
          /\ Finished(i)
          /\ tasks[i].result.status = "error"
          /\ tasks[i].result.error # Nil
          /\ tasks[i].result.output # Nil

\* C4: batch_process never retries: on the sequential path and on the pool
\* path every collected file is passed to process_file exactly once, also
\* when its result is 'error'.
Thm_C4_NoRetry ==
    Batch =>
        /\ \A i \in DOMAIN tasks :
              /\ tasks[i].attempts <= 1
              /\ tasks[i].stage \notin {"new", "queued"} => tasks[i].attempts = 1
        /\ pc = "returned" => \A i \in DOMAIN tasks : tasks[i].attempts = 1

\* A sequential run over several files returned with an error result.
Wit_C4_ErrorKept ==
    /\ Batch /\ pc = "returned" /\ args.workers = 1
    /\ Len(files) >= 2
    /\ \E j \in DOMAIN results : results[j].status = "error"

\* Number of process_file / dlis_to_las calls made so far.
Calls ==
    IF Batch THEN Cardinality({i \in DOMAIN tasks : tasks[i].attempts > 0})
    ELSE Len(results)
\* Some call has ended in the except clause.
SomeFailure ==
    \/ \E i \in DOMAIN tasks : tasks[i].result.status = "error"
    \/ \E j \in DOMAIN results : results[j].status = "error"

\* C5 as stated: once the handling of one input file has failed, the script
\* exits and no further input file is processed (batch_process, and
\* dlis_to_las.main in directory mode).
Cex_C5_StopsAtFirstFailure ==
    [][((Batch \/ DlisDirMode) /\ SomeFailure) => Calls' = Calls]_vars

\* C5 as amended: batch_process and the directory mode of dlis_to_las.main
\* record a failing file and go on: a failure never ends the run, and the
\* run returns with every collected file handled, the failures counted in
\* the summary and exit status 0.
Thm_C5_ContinuesAfterFailure ==
    (Batch \/ DlisDirMode) =>
        /\ pc \in {"exited", "raised"} => ~SomeFailure
        /\ pc = "returned" =>
              /\ Len(results) = Len(files)
              /\ summary.errors = CountStatus(results, "error")
              /\ summary.success + summary.errors = Len(files)
              /\ exitStatus = Some(0)

\* A run returned although its first file had failed, with a later file
\* converted after the failure.
Wit_C5_FailureThenSuccess ==
    /\ Batch \/ DlisDirMode
    /\ pc = "returned" /\ Len(results) >= 2
    /\ results[1].status = "error"
    /\ results[Len(results)].status = "success"
    /\ summary.errors >= 1

\* C10: whenever main accepts the arguments with --filter set, st.filter is
\* called with frequencies that are not None: bandpass with freqmin and
\* freqmax, highpass and lowpass with a corner frequency.
Cex_C10_FilterFrequencies ==
    Batch =>
        \A i \in DOMAIN tasks :
            LET c == tasks[i].filterCall IN
            c # Nil =>
                IF c[1].type = "bandpass"
                    THEN c[1].freqmin # Nil /\ c[1].freqmax # Nil
                    ELSE c[1].freq # Nil

(***************************************************************************)
(* scripts/validate_skills.py                                              *)
(***************************************************************************)
REQUIRED_FRONTMATTER_FIELDS ==
    <<"name", "description", "version", "author", "license", "tags", "dependencies">>
MIN_LINES == 150
MAX_LINES == 500
MIN_TAGS == 7
SKIP_DIRS ==
    {".claude-plugin", ".git", ".github", "docs", "scripts", "node_modules",
     "__pycache__"}

Issue(level, msg, name) == [level |-> level, msg |-> msg, name |-> name]
Errors(issues) == SelectSeq(issues, LAMBDA i : i.level = "ERROR")
Warnings(issues) == SelectSeq(issues, LAMBDA i : i.level = "WARN")

\* Entries the repository root may hold: name, is_dir(), and whether the
\* directory holds a SKILL.md.
Entry(name, dir, md) == [name |-> name, is_dir |-> dir, skill_md |-> md]
RootEntries ==
    {Entry("s1", TRUE, TRUE), Entry("s2", TRUE, TRUE), Entry("docs", TRUE, TRUE),
     Entry(".hidden", TRUE, TRUE), Entry("empty", TRUE, FALSE),
     Entry("README.md", FALSE, FALSE)}
Roots == {r \in SUBSET RootEntries : Cardinality(r) <= MaxEntries}
\* The candidate names in the order sorted() gives them.
SortedNames == <<".hidden", "README.md", "docs", "empty", "s1", "s2">>
StartsWithDot(name) == name \in {".hidden", ".claude-plugin", ".git", ".github"}

\* find_skill_dirs: the names of the skill directories, sorted.
IsSkillDir(d) ==
    d.is_dir /\ d.name \notin SKIP_DIRS /\ ~StartsWithDot(d.name) /\ d.skill_md
find_skill_dirs(r) ==
    SelectSeq(SortedNames, LAMBDA n : \E d \in r : d.name = n /\ IsSkillDir(d))

\* What validate_skill reads from a SKILL.md: the outcome of
\* parse_frontmatter (None, a dict with _error, or the mapping with its
\* keys), the tags value, the number of lines, the number of code fences
\* without a language tag, and whether "when to use" occurs in the text.
Tags(isList, n) == [list |-> isList, n |-> n]
SkillDocs ==
    {[fm |-> "none"], [fm |-> "error"]} \cup
    {[fm |-> "map", fields |-> Range(REQUIRED_FRONTMATTER_FIELDS) \ missing,
      tags |-> t, lines |-> l, untagged |-> u, when_to_use |-> w] :
        missing \in {{}, {"tags", "version"}},
        t \in {Tags(TRUE, MIN_TAGS - 1), Tags(TRUE, MIN_TAGS), Tags(FALSE, 0)},
        l \in {MIN_LINES - 1, MIN_LINES, MAX_LINES, MAX_LINES + 1},
        u \in {0, 2},
        w \in BOOLEAN}

\* validate_skill, line 70: fm.get("tags", []).
TagsOf(doc) == IF "tags" \in doc.fields THEN doc.tags ELSE Tags(TRUE, 0)

\* validate_skill: the list of (level, message) tuples for one SKILL.md.
validate_skill(doc) ==
    IF doc.fm = "none" THEN <<Issue("ERROR", "Missing YAML frontmatter", "")>>
    ELSE IF doc.fm = "error" THEN <<Issue("ERROR", "Invalid YAML", "")>>
    ELSE
        LET missing == SelectSeq(REQUIRED_FRONTMATTER_FIELDS,
                                 LAMBDA f : f \notin doc.fields)
            fieldIssues == [k \in DOMAIN missing |->
                               Issue("ERROR", "Missing frontmatter field", missing[k])]
            tagIssues == IF TagsOf(doc).list /\ TagsOf(doc).n < MIN_TAGS
                            THEN <<Issue("WARN", "Too few tags", "")>> ELSE <<>>
            lineIssues == IF doc.lines < MIN_LINES
                             THEN <<Issue("WARN", "Too few lines", "")>>
                          ELSE IF doc.lines > MAX_LINES
                             THEN <<Issue("ERROR", "Too many lines", "")>>
                          ELSE <<>>
            fenceIssues == [k \in 1..doc.untagged |->
                               Issue("WARN", "Code block without language tag", "")]
            whenIssues == IF ~doc.when_to_use
                             THEN <<Issue("WARN", "Missing 'When to use' section", "")>>
                             ELSE <<>>
        IN fieldIssues \o tagIssues \o lineIssues \o fenceIssues \o whenIssues

\* marketplace.json: missing, not valid JSON, or an object whose "plugins"
\* list holds entries with these names (repetitions allowed).
RECURSIVE SeqsUpTo(_, _)
SeqsUpTo(S, n) ==
    IF n = 0 THEN {<<>>}
    ELSE SeqsUpTo(S, n - 1) \cup
         {Append(q, x) : q \in {q0 \in SeqsUpTo(S, n - 1) : Len(q0) = n - 1}, x \in S}
PluginNames == {"s1", "s2", "extra"}
Marketplaces ==
    {[state |-> "missing"], [state |-> "invalid"]} \cup
    {[state |-> "ok", plugins |-> ps] : ps \in SeqsUpTo(PluginNames, MaxPlugins)}

\* validate_marketplace, lines 109 and 113: the order in which a loop visits
\* a set is arbitrary; skill_names and plugin_names are sets.
SkillIteration(skill_names) == Perms(skill_names)
\* Variant of PluginIteration: plugin_names is built as a list, so a name
\* listed twice is visited twice.
PluginIteration_List(plugins) == {plugins}

PluginIteration(plugins) == Perms(Range(plugins))

\* validate_marketplace: the issue lists it can return for a marketplace
\* file and a set of skill names.
validate_marketplace(m, skill_names) ==
    IF m.state = "missing"
        THEN {<<Issue("ERROR", "Missing .claude-plugin/marketplace.json", "")>>}
    ELSE IF m.state = "invalid" THEN {<<Issue("ERROR", "Invalid JSON", "")>>}
    ELSE
        LET plugin_names == Range(m.plugins)
            errs(so) ==
                LET absent == SelectSeq(so, LAMBDA n : n \notin plugin_names)
                IN [k \in DOMAIN absent |->
                        Issue("ERROR", "Skill not in marketplace.json plugins", absent[k])]
            warns(po) ==
                LET extra == SelectSeq(po, LAMBDA n : n \notin skill_names)
                IN [k \in DOMAIN extra |->
                        Issue("WARN", "Plugin in marketplace.json but no skill directory",
                              extra[k])]
        IN {errs(so) \o warns(po) :
                so \in SkillIteration(skill_names), po \in PluginIteration(m.plugins)}

CountLevel(issues, level) ==
    Cardinality({k \in DOMAIN issues : issues[k].level = level})
\* The print loops of main (lines 143-144, 158-159) print every issue.
PrintIssues(issues) ==
    printed' = [ERROR |-> printed.ERROR + CountLevel(issues, "ERROR"),
                WARN |-> printed.WARN + CountLevel(issues, "WARN")]

IdleBatch ==
    /\ args = Nil /\ cwd = {} /\ files = <<>> /\ tasks = <<>> /\ submitted = 0
    /\ results = <<>> /\ disk = <<>> /\ clobbered = {} /\ summary = NoSummary

InitSkills ==
    /\ prog = "validate_skills"
    /\ pc = "main"
    /\ exitStatus = Nil
    /\ root \in Roots
    /\ market \in Marketplaces
    /\ skill_dirs = <<>>
    /\ skIdx = 0
    /\ total_errors = 0
    /\ total_warnings = 0
    /\ printed = NoIssues
    /\ mp_issues = <<>>
    /\ out = <<>>
    /\ IdleBatch /\ IdleAvo /\ IdleTools

\* main, lines 121-130: find the skill directories; exit 1 when none.
SkillsMain ==
    /\ prog = "validate_skills" /\ pc = "main"
    /\ skill_dirs' = find_skill_dirs(root)
    /\ IF skill_dirs' = <<>>
          THEN /\ out' = Append(out, "ERROR: No skill directories found")
               /\ pc' = "exited"
               /\ exitStatus' = Some(1)
          ELSE /\ pc' = "skills"
               /\ UNCHANGED <<out, exitStatus>>
    /\ UNCHANGED <<prog, root, market, skIdx, total_errors, total_warnings, printed,
                   mp_issues>>

\* main, lines 133-146: validate the next skill and print its status.
ValidateNext ==
    /\ prog = "validate_skills" /\ pc = "skills"
    /\ skIdx < Len(skill_dirs)
    /\ \E doc \in SkillDocs :
          LET issues == validate_skill(doc)
              errors == Errors(issues)
              warnings == Warnings(issues)
          IN /\ total_errors' = total_errors + Len(errors)
             /\ total_warnings' = total_warnings + Len(warnings)
             /\ PrintIssues(issues)
             /\ out' = Append(out, IF issues # <<>>
                                      THEN (IF errors # <<>> THEN "FAIL" ELSE "WARN")
                                      ELSE "PASS")
    /\ skIdx' = skIdx + 1
    /\ UNCHANGED <<prog, pc, exitStatus, root, skill_dirs, market, mp_issues>>

\* main, lines 148-161: the marketplace check over the names of the skills.
CheckMarketplace ==
    /\ prog = "validate_skills" /\ pc = "skills"
    /\ skIdx = Len(skill_dirs)
    /\ \E issues \in validate_marketplace(market, Range(skill_dirs)) :
          /\ mp_issues' = issues
          /\ total_errors' = total_errors + Len(Errors(issues))
          /\ total_warnings' = total_warnings + Len(Warnings(issues))
          /\ PrintIssues(issues)
          /\ out' = IF issues # <<>> THEN out ELSE Append(out, "PASS")
    /\ pc' = "summary"
    /\ UNCHANGED <<prog, exitStatus, root, skill_dirs, market, skIdx>>

\* Variant of SkillsSummary: warnings fail the run as errors do.
SkillsSummary_WarnFails ==
    /\ prog = "validate_skills" /\ pc = "summary"
    /\ IF total_errors + total_warnings > 0
          THEN out' = Append(out, "FAILED") /\ exitStatus' = Some(1)
          ELSE out' = Append(out, "PASSED") /\ exitStatus' = Some(0)
    /\ pc' = "exited"
    /\ UNCHANGED <<prog, root, skill_dirs, market, skIdx, total_errors, total_warnings,
                   printed, mp_issues>>

\* main, lines 163-172: print the totals and exit.
SkillsSummary ==
    /\ prog = "validate_skills" /\ pc = "summary"
    /\ IF total_errors > 0
          THEN out' = Append(out, "FAILED") /\ exitStatus' = Some(1)
          ELSE out' = Append(out, "PASSED") /\ exitStatus' = Some(0)
    /\ pc' = "exited"
    /\ UNCHANGED <<prog, root, skill_dirs, market, skIdx, total_errors, total_warnings,
                   printed, mp_issues>>

NextSkills ==
    \/ (SkillsMain /\ UNCHANGED <<batchVars, summary, avoVars, toolVars>>)
    \/ (ValidateNext /\ UNCHANGED <<batchVars, summary, avoVars, toolVars>>)
    \/ (CheckMarketplace /\ UNCHANGED <<batchVars, summary, avoVars, toolVars>>)
    \/ (SkillsSummary /\ UNCHANGED <<batchVars, summary, avoVars, toolVars>>)

SpecSkills == InitSkills /\ [][NextSkills]_vars

(***************************************************************************)
(* Claims about validate_skills.py, checked under SpecSkills.              *)
(***************************************************************************)
SkillsDone == prog = "validate_skills" /\ pc = "exited"

IssuesFor(level, name) ==
    Cardinality({k \in DOMAIN mp_issues :
                    mp_issues[k].level = level /\ mp_issues[k].name = name})

Abs(n) == IF n < 0 THEN -n ELSE n
RECURSIVE Gcd(_, _)
Gcd(a, b) == IF b = 0 THEN a ELSE Gcd(b, a % b)
Frac(n, d) ==
    LET g == Gcd(Abs(n), Abs(d))
        sg == IF d < 0 THEN -1 ELSE 1
    IN [num |-> sg * (n \div g), den |-> sg * (d \div g)]
\* r > a/b and r < 0, for b > 0.
Greater(r, a, b) == r.num * b > a * r.den
Negative(r) == r.num < 0

RECURSIVE SumSeq(_)
SumSeq(q) == IF q = <<>> THEN 0 ELSE Head(q) + SumSeq(Tail(q))

\* LayerProperties with vp, vs in km/s and rho in g/cc.
Layer(vp, vs, rho) == [vp |-> vp, vs |-> vs, rho |-> rho]
Layers == {Layer(vp, vs, rho) : vp \in {2, 3, 4}, vs \in {1, 2}, rho \in {2, 3}}

\* np.sin(np.deg2rad(theta))**2 in hundredths, for the angles used.
Sin2(deg) ==
    CASE deg = 0 -> 0
      [] deg = 5 -> 1
      [] deg = 10 -> 3
      [] deg = 15 -> 7
      [] deg = 20 -> 12

\* shuey: intercept R0 and gradient G as numerators over the common
\* denominator (vp1+vp2)^2 * (rho1+rho2).
ShueyDen(l1, l2) == (l1.vp + l2.vp) * (l1.vp + l2.vp) * (l1.rho + l2.rho)
ShueyR0(l1, l2) ==
    LET dvp == l2.vp - l1.vp
        drho == l2.rho - l1.rho
        sp == l1.vp + l2.vp
        sr == l1.rho + l2.rho
    IN dvp * sp * sr + drho * sp * sp
ShueyG(l1, l2) ==
    LET dvp == l2.vp - l1.vp
        dvs == l2.vs - l1.vs
        drho == l2.rho - l1.rho
        sp == l1.vp + l2.vp
        ss == l1.vs + l2.vs
        sr == l1.rho + l2.rho
    IN dvp * sp * sr - 4 * ss * ss * drho - 8 * ss * dvs * sr
\* shuey: Rpp = R0 + G * sin^2(theta) for every angle of theta, as
\* numerators over 100 * ShueyDen.
shuey(l1, l2, theta) ==
    [k \in DOMAIN theta |-> ShueyR0(l1, l2) * 100 + ShueyG(l1, l2) * Sin2(theta[k])]

\* Variant of FitAngles: the line is fitted through the two end points.
FitAngles_Two == <<0, 20>>

\* calculate_intercept_gradient, line 110: the angles of the fit.
FitAngles == <<0, 5, 10, 15, 20>>

\* np.polyfit(x, y, 1) for x in hundredths and y as numerators over den:
\* the least-squares line, <<slope, intercept>>.
polyfit(x, y, den) ==
    LET n == Len(x)
        sx == SumSeq(x)
        sy == SumSeq(y)
        sxx == SumSeq([k \in DOMAIN x |-> x[k] * x[k]])
        sxy == SumSeq([k \in DOMAIN x |-> x[k] * y[k]])
        q == n * sxx - sx * sx
    IN <<Frac(n * sxy - sx * sy, (den \div 100) * q), Frac(sy * sxx - sx * sxy, den * q)>>

\* calculate_intercept_gradient: the points fitted and the (intercept,
\* gradient) returned.
FitPoints(l1, l2) ==
    LET Rpp == shuey(l1, l2, FitAngles)
    IN [k \in DOMAIN FitAngles |-> <<Sin2(FitAngles[k]), Rpp[k]>>]
calculate_intercept_gradient(l1, l2) ==
    LET pts == FitPoints(l1, l2)
        A == polyfit([k \in DOMAIN pts |-> pts[k][1]], [k \in DOMAIN pts |-> pts[k][2]],
                      100 * ShueyDen(l1, l2))
    IN [intercept |-> A[2], gradient |-> A[1]]

\* classify_avo.
classify_avo(intercept, gradient) ==
    IF Greater(intercept, 1, 50)
        THEN (IF Negative(gradient) THEN "I" ELSE "I (anomalous)")
    ELSE IF Greater(intercept, -1, 50)
        THEN (IF Negative(gradient) THEN "II" ELSE "IIp")
    ELSE (IF Negative(gradient) THEN "III" ELSE "IV")

InitAvo ==
    /\ prog = "avo_analysis"
    /\ pc = "main"
    /\ exitStatus = Nil
    /\ layers \in Layers \X Layers
    /\ avo = <<>>
    /\ IdleBatch /\ IdleSkills /\ IdleTools

\* main, lines 313-318: build the two layers and start the analysis.
AvoMain ==
    /\ prog = "avo_analysis" /\ pc = "main"
    /\ pc' = "fit"
    /\ UNCHANGED <<prog, exitStatus, avoVars>>

\* analyze_avo, line 167: intercept and gradient from the fit.
AvoFit ==
    /\ prog = "avo_analysis" /\ pc = "fit"
    /\ LET ig == calculate_intercept_gradient(layers[1], layers[2]) IN
          avo' = [points |-> FitPoints(layers[1], layers[2]),
                  intercept |-> ig.intercept, gradient |-> ig.gradient,
                  avo_class |-> Nil]
    /\ pc' = "classify"
    /\ UNCHANGED <<prog, exitStatus, layers>>

\* analyze_avo, line 170: the classification.
AvoClassify ==
    /\ prog = "avo_analysis" /\ pc = "classify"
    /\ avo' = [avo EXCEPT !.avo_class = Some(classify_avo(avo.intercept, avo.gradient))]
    /\ pc' = "report"
    /\ UNCHANGED <<prog, exitStatus, layers>>

\* main, lines 320-325: print the report and end.
AvoReport ==
    /\ prog = "avo_analysis" /\ pc = "report"
    /\ pc' = "exited"
    /\ exitStatus' = Some(0)
    /\ UNCHANGED <<prog, avoVars>>

NextAvo ==
    \/ (AvoMain /\ UNCHANGED <<batchVars, summary, skillVars, toolVars>>)
    \/ (AvoFit /\ UNCHANGED <<batchVars, summary, skillVars, toolVars>>)
    \/ (AvoClassify /\ UNCHANGED <<batchVars, summary, skillVars, toolVars>>)
    \/ (AvoReport /\ UNCHANGED <<batchVars, summary, skillVars, toolVars>>)

SpecAvo == InitAvo /\ [][NextAvo]_vars

(***************************************************************************)
(* Claims about avo_analysis.py, checked under SpecAvo.                    *)
(***************************************************************************)
Classified == prog = "avo_analysis" /\ pc \in {"report", "exited"}
Fitted == prog = "avo_analysis" /\ pc \in {"classify", "report", "exited"}

\* C8: for every intercept and gradient classify_avo returns one of the AVO
\* classes I, II, IIp, III, IV.
Cex_C8_AvoClasses ==
    Classified => avo.avo_class \in {Some(c) : c \in {"I", "II", "IIp", "III", "IV"}}

\* C9 as stated: the line is fitted through exactly two (sin^2(theta), Rpp)
\* points of the Shuey approximation.
Cex_C9_TwoPoints ==
    Fitted => Len(avo.points) = 2

\* C9 as amended: intercept and gradient come from one evaluation of the
\* closed-form Shuey approximation at the five angles 0, 5, 10, 15 and 20
\* degrees and a line fitted to these five (sin^2(theta), Rpp) points; the
\* result depends on the two layers only.
Thm_C9_FivePoints ==
    Fitted =>
        /\ Len(avo.points) = 5
        /\ \A k \in 1..5 :
              /\ avo.points[k][1] = Sin2(5 * (k - 1))
              /\ avo.points[k][2] =
                    ShueyR0(layers[1], layers[2]) * 100
                        + ShueyG(layers[1], layers[2]) * avo.points[k][1]
        /\ \A k \in 1..4 : avo.points[k][1] < avo.points[k + 1][1]

\* A fit over two layers of different properties, with a gradient that is
\* not zero.
Wit_C9_Fitted ==
    /\ Fitted
    /\ layers[1] # layers[2]
    /\ Len(avo.points) = 5
    /\ avo.points[1][2] # avo.points[5][2]
    /\ avo.gradient.num # 0

(***************************************************************************)
(* obspy/scripts/fetch_earthquake.py: main.                                *)
(***************************************************************************)
\* Python truthiness of an optional string: None and '' are false.
TruthyStr(o) == o # Nil /\ o[1] # ""

\* --event-id and --time are strings, --lat and --lon are type=float.
FetchArgs ==
    LET Degrees == {Nil, Some(-10), Some(0), Some(35)}
    IN [event_id : {Nil, Some("us7000jk6z")}, lat : Degrees, lon : Degrees,
        time : {Nil, Some("2024-01-01T00:00:00")}]

FetchArgsError == "Either --event-id or (--lat, --lon, --time) required"

InitFetch ==
    /\ prog = "fetch_earthquake"
    /\ pc = "main"
    /\ exitStatus = Nil
    /\ inp \in FetchArgs
    /\ res = Nil

\* main, lines 218-220: the argument check; parser.error prints the message
\* and exits with status 2.
FetchMain ==
    /\ prog = "fetch_earthquake" /\ pc = "main"
    /\ IF ~TruthyStr(inp.event_id)
            /\ ~(Truthy(inp.lat) /\ Truthy(inp.lon) /\ TruthyStr(inp.time))
          THEN /\ res' = Some(FetchArgsError)
               /\ exitStatus' = Some(2)
               /\ pc' = "exited"
          ELSE /\ pc' = "fetch"
               /\ UNCHANGED <<res, exitStatus>>
    /\ UNCHANGED <<prog, inp>>

\* main, lines 222-239, and fetch_earthquake_waveforms, lines 64-79: the event
\* is looked up by id when event_id is true, else the given location is used;
\* the FDSN requests either return or raise (an uncaught exception, status 1).
FetchWaveforms ==
    /\ prog = "fetch_earthquake" /\ pc = "fetch"
    /\ \E ok \in BOOLEAN :
          /\ res' = Some(IF TruthyStr(inp.event_id) THEN "event" ELSE "location")
          /\ exitStatus' = Some(IF ok THEN 0 ELSE 1)
    /\ pc' = "exited"
    /\ UNCHANGED <<prog, inp>>

FetchRejected == res = Some(FetchArgsError) /\ exitStatus = Some(2)

\* C11: main accepts the arguments whenever --event-id is given or all of
\* --lat, --lon and --time are given, for any numeric latitude and longitude
\* including 0, and rejects them with the parser error otherwise.
Cex_C11_AcceptsGivenArguments ==
    (prog = "fetch_earthquake" /\ pc # "main") =>
        (~FetchRejected <=>
            \/ inp.event_id # Nil
            \/ inp.lat # Nil /\ inp.lon # Nil /\ inp.time # Nil)

(***************************************************************************)
(* segyio/scripts/extract_subset.py: parse_range, extract_by_traces, main. *)
(***************************************************************************)
MaxTraces == 3      \* the source file holds 1..MaxTraces traces

\* A --traces string, split at ':': each part is an integer literal or ''.
RangeStrings ==
    LET RangeParts == {Nil} \cup {Some(v) : v \in -2..(MaxTraces + 1)}
    IN {<<a>> : a \in RangeParts}
          \cup {<<a, b>> : a \in RangeParts, b \in RangeParts}
          \cup {<<Some(0), Some(1), Some(2)>>}

\* parse_range, lines 26-37: Nil stands for a raised ValueError (int('') or
\* more than one ':'), else Some(<<start, end>>).
parse_range(parts) ==
    IF Len(parts) = 1
        THEN (IF parts[1] = Nil THEN Nil
              ELSE Some(<<parts[1], Some(parts[1][1] + 1)>>))
    ELSE IF Len(parts) = 2
        THEN Some(<<parts[1], parts[2]>>)
    ELSE Nil

\* Python's list(range(a, b)).
PyRange(a, b) == [k \in 1..(IF b > a THEN b - a ELSE 0) |-> a + k - 1]

\* extract_by_traces, lines 53-55.
trace_indices(trace_range, tracecount) ==
    LET start == PyOr(trace_range[1], Some(0))[1]
        end == PyOr(trace_range[2], Some(tracecount))[1]
    IN PyRange(start, IF end < tracecount THEN end ELSE tracecount)

\* segyio's src.trace[i]: a negative index counts from the end; Nil stands
\* for the IndexError of an index outside the file.
WrapIndex(i, tracecount) ==
    IF 0 <= i /\ i < tracecount THEN Some(i)
    ELSE IF i < 0 /\ i + tracecount >= 0 THEN Some(i + tracecount)
    ELSE Nil

InitExtract ==
    /\ prog = "extract_subset"
    /\ pc = "main"
    /\ exitStatus = Nil
    /\ inp \in [tracecount : 1..MaxTraces, traces : RangeStrings]
    /\ res = [trace_range |-> Nil, indices |-> <<>>, written |-> <<>>, returned |-> Nil]

\* main, lines 224-237: parse --traces (a ValueError here is not caught and
\* ends the run with status 1), then call extract_by_traces.
ExtractMain ==
    /\ prog = "extract_subset" /\ pc = "main"
    /\ IF parse_range(inp.traces) = Nil
          THEN pc' = "exited" /\ exitStatus' = Some(1) /\ UNCHANGED res
          ELSE /\ res' = [res EXCEPT !.trace_range = parse_range(inp.traces)]
               /\ pc' = "open"
               /\ UNCHANGED exitStatus
    /\ UNCHANGED <<prog, inp>>

\* extract_by_traces, lines 52-78: compute the trace indices and create the
\* destination file.
ExtractOpen ==
    /\ prog = "extract_subset" /\ pc = "open"
    /\ res' = [res EXCEPT !.indices = trace_indices(res.trace_range[1], inp.tracecount)]
    /\ pc' = "copy"
    /\ UNCHANGED <<prog, inp, exitStatus>>

\* extract_by_traces, lines 81-85: copy the next trace; an IndexError leaves
\* the function and main's handler exits with status 1 (lines 255-257).
ExtractCopy ==
    /\ prog = "extract_subset" /\ pc = "copy"
    /\ Len(res.written) < Len(res.indices)
    /\ LET src_idx == res.indices[Len(res.written) + 1]
           t == WrapIndex(src_idx, inp.tracecount)
       IN IF t = Nil
             THEN pc' = "exited" /\ exitStatus' = Some(1) /\ UNCHANGED res
             ELSE /\ res' = [res EXCEPT !.written = Append(@, t[1])]
                  /\ UNCHANGED <<pc, exitStatus>>
    /\ UNCHANGED <<prog, inp>>

\* extract_by_traces, line 87, and main, line 253: return the number of
\* trace indices; main prints it and ends with status 0.
ExtractReturn ==
    /\ prog = "extract_subset" /\ pc = "copy"
    /\ Len(res.written) = Len(res.indices)
    /\ res' = [res EXCEPT !.returned = Some(Len(res.indices))]
    /\ pc' = "exited"
    /\ exitStatus' = Some(0)
    /\ UNCHANGED <<prog, inp>>

\* The call of extract_by_traces has ended, by return or by an exception.
Extracted ==
    /\ prog = "extract_subset" /\ pc = "exited"
    /\ res.trace_range # Nil

\* The trace indices the range (start, end) selects in a file of n traces.
Selected(trace_range, n) ==
    LET start == IF trace_range[1] = Nil THEN 0 ELSE trace_range[1][1]
        end == IF trace_range[2] = Nil THEN n ELSE trace_range[2][1]
    IN {i \in 0..(n - 1) : start <= i /\ i < end}

\* C12: extract_by_traces called with (start, end) writes exactly the source
\* traces i with start <= i < end and 0 <= i < tracecount (None start = 0,
\* None end = tracecount), in increasing index order, and returns their number.
Cex_C12_TraceRange ==
    Extracted =>
        LET sel == Selected(res.trace_range[1], inp.tracecount)
        IN /\ Range(res.written) = sel
           /\ \A k \in 1..(Len(res.written) - 1) : res.written[k] < res.written[k + 1]
           /\ res.returned = Some(Cardinality(sel))

(***************************************************************************)
(* dlisio/scripts/dlis_to_las.py: dlis_to_las.                             *)
(***************************************************************************)
MaxLogicalFiles == 2    \* a DLIS file holds 1..MaxLogicalFiles logical files
MaxFrames == 2          \* a logical file holds 0..MaxFrames frames

\* Python's list[i] on a list of n items: the position counted from 0, a
\* negative index counting from the end; Nil stands for IndexError.
PyIndex(i, n) ==
    IF 0 <= i /\ i < n THEN Some(i)
    ELSE IF i < 0 /\ i + n >= 0 THEN Some(i + n)
    ELSE Nil

InitDlisToLas ==
    /\ prog = "dlis_to_las"
    /\ pc = "load"
    /\ exitStatus = Nil
    /\ LET \* a loaded DLIS file: the number of frames of each logical file
           DlisFiles == UNION {[1..n -> 0..MaxFrames] : n \in 1..MaxLogicalFiles}
           \* --logical-file and --frame are type=int
           DlisIndices == (0 - MaxFrames - 1)..(MaxFrames + 1)
       IN inp \in [logical_files : DlisFiles, logical_file_index : DlisIndices,
                   frame_index : DlisIndices]
    /\ res = [raised |-> Nil, frame |-> Nil, las |-> Nil]

\* dlis_to_las, lines 40-57: load the file and pick the logical file and the
\* frame; the two checks compare the index with the length only.
DlisSelectFrame ==
    /\ prog = "dlis_to_las" /\ pc = "load"
    /\ LET n == Len(inp.logical_files)
           lf == PyIndex(inp.logical_file_index, n)
       IN IF inp.logical_file_index >= n
             THEN res' = [res EXCEPT !.raised = Some("ValueError")] /\ pc' = "raised"
          ELSE IF lf = Nil
             THEN res' = [res EXCEPT !.raised = Some("IndexError")] /\ pc' = "raised"
          ELSE LET nf == inp.logical_files[lf[1] + 1]
                   fr == PyIndex(inp.frame_index, nf)
               IN IF inp.frame_index >= nf
                     THEN res' = [res EXCEPT !.raised = Some("ValueError")]
                            /\ pc' = "raised"
                  ELSE IF fr = Nil
                     THEN res' = [res EXCEPT !.raised = Some("IndexError")]
                            /\ pc' = "raised"
                  ELSE res' = [res EXCEPT !.frame = Some(<<lf[1], fr[1]>>)]
                            /\ pc' = "convert"
    /\ UNCHANGED <<prog, inp, exitStatus>>

\* dlis_to_las, lines 58-143: copy the frame's curves into a LAS file and
\* write it; las.write either returns or raises.
DlisWriteLas ==
    /\ prog = "dlis_to_las" /\ pc = "convert"
    /\ \E ok \in BOOLEAN :
          IF ok THEN res' = [res EXCEPT !.las = res.frame] /\ pc' = "returned"
          ELSE res' = [res EXCEPT !.raised = Some("OSError")] /\ pc' = "raised"
    /\ UNCHANGED <<prog, inp, exitStatus>>

\* main, lines 210-222 and 236-247: a returned call is reported as created,
\* a raised one as an error.
DlisToLasReport ==
    /\ prog = "dlis_to_las" /\ pc \in {"returned", "raised"}
    /\ exitStatus' = Some(IF pc = "returned" THEN 0 ELSE 1)
    /\ pc' = "exited"
    /\ UNCHANGED <<prog, inp, res>>

\* Both indices lie within the file.
IndicesInRange ==
    /\ 0 <= inp.logical_file_index
    /\ inp.logical_file_index < Len(inp.logical_files)
    /\ 0 <= inp.frame_index
    /\ inp.frame_index < inp.logical_files[inp.logical_file_index + 1]

\* C13: dlis_to_las converts a frame only when 0 <= logical_file_index <
\* number of logical files and 0 <= frame_index < number of frames of that
\* logical file; for any other index it raises ValueError and writes no LAS
\* file.
Cex_C13_IndexRange ==
    (prog = "dlis_to_las" /\ pc \in {"convert", "returned", "raised", "exited"}) =>
        /\ res.frame # Nil => IndicesInRange
        /\ ~IndicesInRange => (res.raised = Some("ValueError") /\ res.las = Nil)

(***************************************************************************)
(* lasio/scripts/las_to_csv.py: las_to_csv.                                *)
(***************************************************************************)
MaxCurves == 2      \* --curves names at most this many curves

\* The data frame of a LAS file, las.df().reset_index(): the index (depth)
\* column first, then the other curves; lasio keeps the names distinct.
LasFrames ==
    {<<"DEPT">>, <<"DEPT", "GR">>, <<"DEPT", "GR", "RHOB">>, <<"DEPT", "RHOB", "GR">>}
\* The curves argument: None, or the list of names after --curves.
CurveFilters ==
    LET CurveNames == {"DEPT", "GR", "RHOB", "NPHI"}
    IN {Nil} \cup {Some(q) : q \in UNION {[1..n -> CurveNames] : n \in 0..MaxCurves}}

\* [c for c in curves if c in columns]
Existing(curves, columns) == SelectSeq(curves, LAMBDA c : c \in Range(columns))

InitLasToCsv ==
    /\ prog = "las_to_csv"
    /\ pc = "read"
    /\ exitStatus = Nil
    /\ inp \in [las : LasFrames, curves : CurveFilters]
    /\ res = [df |-> <<>>, csv |-> Nil]

\* las_to_csv, lines 36-37: read the file into a data frame; lasio.read
\* either returns or raises (not caught by main: status 1).
LasToCsvRead ==
    /\ prog = "las_to_csv" /\ pc = "read"
    /\ \E ok \in BOOLEAN :
          IF ok THEN /\ res' = [res EXCEPT !.df = inp.las]
                     /\ pc' = "filter"
                     /\ UNCHANGED exitStatus
          ELSE pc' = "exited" /\ exitStatus' = Some(1) /\ UNCHANGED res
    /\ UNCHANGED <<prog, inp>>

\* las_to_csv, lines 39-60: select the columns when a non-empty curves list
\* is given, then write the frame's columns to the CSV file; main, line 88.
LasToCsvWrite ==
    /\ prog = "las_to_csv" /\ pc = "filter"
    /\ LET cols == IF inp.curves # Nil /\ inp.curves[1] # <<>>
                       THEN <<res.df[1]>> \o Existing(inp.curves[1], res.df)
                       ELSE res.df
       IN res' = [df |-> cols, csv |-> Some(cols)]
    /\ pc' = "exited"
    /\ exitStatus' = Some(0)
    /\ UNCHANGED <<prog, inp>>

\* The CSV file was written with a curves filter in force.
Filtered ==
    /\ prog = "las_to_csv" /\ res.csv # Nil
    /\ inp.curves # Nil /\ inp.curves[1] # <<>>

\* C14: with a curves filter the CSV holds the depth column first, then
\* exactly the requested curves that exist in the LAS file, in the requested
\* order, every column appearing exactly once; missing curves are skipped.
Cex_C14_FilteredColumns ==
    Filtered =>
        LET csv == res.csv[1]
        IN /\ csv[1] = inp.las[1]
           /\ Range(csv) = {inp.las[1]} \cup (Range(inp.curves[1]) \cap Range(inp.las))
           /\ \A i, j \in DOMAIN csv : i # j => csv[i] # csv[j]
           /\ \A i, j \in 2..Len(csv) :
                 i < j => \E a, b \in DOMAIN inp.curves[1] :
                             a < b /\ inp.curves[1][a] = csv[i] /\ inp.curves[1][b] = csv[j]

(***************************************************************************)
(* gempy/scripts/validate_input.py: main, the two validators and           *)
(* check_data_consistency.                                                  *)
(***************************************************************************)
SurfaceSets == {{}, {"A"}, {"A", "B"}}

\* A surface-points CSV file, by what the validator looks at; ranges holds
\* <<min, max>> of the X, Y and Z coordinates.
PointFiles ==
    LET CoordRanges == {[x |-> <<0, 5>>, y |-> <<0, 5>>, z |-> <<0, 5>>],
                        [x |-> <<0, 20>>, y |-> <<0, 5>>, z |-> <<0, 5>>]}
    IN {[kind |-> "unreadable"], [kind |-> "missing_columns"]}
          \cup [kind : {"table"}, nulls : BOOLEAN, numeric : BOOLEAN,
                few_points : BOOLEAN, surfaces : SurfaceSets, ranges : CoordRanges]
\* An orientations CSV file.
OrientationFiles ==
    {[kind |-> "unreadable"], [kind |-> "missing_columns"], [kind |-> "no_vectors"]}
        \cup [kind : {"table"}, nulls : BOOLEAN, bad_dip : BOOLEAN,
              surfaces : SurfaceSets]
\* --extent: absent, or a comma-separated list whose items float() accepts
\* or not.
Extents ==
    {Nil, Some([numeric |-> FALSE, vals |-> <<>>]),
     Some([numeric |-> TRUE, vals |-> <<0, 10>>]),
     Some([numeric |-> TRUE, vals |-> <<0, 10, 0, 10, 0, 10>>]),
     Some([numeric |-> TRUE, vals |-> <<0, 30, 0, 30, 0, 30>>])}

NoInfo == [surfaces |-> Nil, ranges |-> Nil]
Report(valid, errors, warnings, info) ==
    [valid |-> valid, errors |-> errors, warnings |-> warnings, info |-> info]

\* validate_surface_points, lines 25-84.
validate_surface_points(f) ==
    IF f.kind = "unreadable"
        THEN Report(FALSE, <<"Failed to read file">>, <<>>, NoInfo)
    ELSE IF f.kind = "missing_columns"
        THEN Report(FALSE, <<"Missing required columns">>, <<>>, NoInfo)
    ELSE Report(~f.nulls /\ f.numeric,
                (IF f.nulls THEN <<"null values">> ELSE <<>>)
                    \o (IF f.numeric THEN <<>> ELSE <<"not numeric">>),
                IF f.few_points THEN <<"minimum 2 required">> ELSE <<>>,
                [surfaces |-> Some(f.surfaces), ranges |-> Some(f.ranges)])

\* validate_orientations, lines 94-165.
validate_orientations(f) ==
    IF f.kind = "unreadable"
        THEN Report(FALSE, <<"Failed to read file">>, <<>>, NoInfo)
    ELSE IF f.kind = "missing_columns"
        THEN Report(FALSE, <<"Missing required columns">>, <<>>, NoInfo)
    ELSE IF f.kind = "no_vectors"
        THEN Report(FALSE, <<"Must have either (dip, azimuth) or (Gx, Gy, Gz) columns">>,
                    <<>>, NoInfo)
    ELSE Report(~f.nulls,
                IF f.nulls THEN <<"null values">> ELSE <<>>,
                IF f.bad_dip THEN <<"Dip values should be between 0 and 90 degrees">>
                             ELSE <<>>,
                [surfaces |-> Some(f.surfaces), ranges |-> Nil])

\* info.get(key, default)
GetOr(o, default) == IF o = Nil THEN default ELSE o[1]

\* check_data_consistency, lines 177-208: the warnings of its report.
check_data_consistency(points_report, ori_report, extent) ==
    LET points_surfaces == GetOr(points_report.info.surfaces, {})
        ori_surfaces == GetOr(ori_report.info.surfaces, {})
        zero == [x |-> <<0, 0>>, y |-> <<0, 0>>, z |-> <<0, 0>>]
        r == GetOr(points_report.info.ranges, zero)
        Outside(range, lo, hi) == range[1] < lo \/ range[2] > hi
    IN (IF points_surfaces \ ori_surfaces # {}
            THEN <<"Surfaces without orientations">> ELSE <<>>)
        \o (IF ori_surfaces \ points_surfaces # {}
            THEN <<"Orientations for unknown surfaces">> ELSE <<>>)
        \o (IF extent # Nil /\ extent[1] # <<>>
            THEN (IF Outside(r.x, extent[1][1], extent[1][2])
                     THEN <<"X coordinates outside specified extent">> ELSE <<>>)
                 \o (IF Outside(r.y, extent[1][3], extent[1][4])
                     THEN <<"Y coordinates outside specified extent">> ELSE <<>>)
                 \o (IF Outside(r.z, extent[1][5], extent[1][6])
                     THEN <<"Z coordinates outside specified extent">> ELSE <<>>)
            ELSE <<>>)

InitValidateInput ==
    /\ prog = "validate_input"
    /\ pc = "main"
    /\ exitStatus = Nil
    /\ inp \in [extent : Extents, surface_points : PointFiles,
                orientations : OrientationFiles]
    /\ res = [extent |-> Nil, points_report |-> Nil, ori_report |-> Nil,
              consistency |-> Nil]

\* main, lines 253-263: parse --extent; exit 1 unless it holds six numbers.
ValidateParseExtent ==
    /\ prog = "validate_input" /\ pc = "main"
    /\ IF inp.extent = Nil
          THEN pc' = "validate" /\ UNCHANGED <<res, exitStatus>>
       ELSE IF ~inp.extent[1].numeric \/ Len(inp.extent[1].vals) # 6
          THEN pc' = "exited" /\ exitStatus' = Some(1) /\ UNCHANGED res
       ELSE /\ res' = [res EXCEPT !.extent = Some(inp.extent[1].vals)]
            /\ pc' = "validate"
            /\ UNCHANGED exitStatus
    /\ UNCHANGED <<prog, inp>>

\* main, lines 266-270: validate both files and print the two reports.
ValidateFiles ==
    /\ prog = "validate_input" /\ pc = "validate"
    /\ res' = [res EXCEPT
                  !.points_report = Some(validate_surface_points(inp.surface_points)),
                  !.ori_report = Some(validate_orientations(inp.orientations))]
    /\ pc' = "consistency"
    /\ UNCHANGED <<prog, inp, exitStatus>>

\* main, lines 273-281: the consistency check, for two valid reports only.
ValidateConsistency ==
    /\ prog = "validate_input" /\ pc = "consistency"
    /\ IF res.points_report[1].valid /\ res.ori_report[1].valid
          THEN res' = [res EXCEPT !.consistency =
                          Some(check_data_consistency(res.points_report[1],
                                                      res.ori_report[1], res.extent))]
          ELSE UNCHANGED res
    /\ pc' = "summary"
    /\ UNCHANGED <<prog, inp, exitStatus>>

\* Variant of ValidateExit: consistency warnings fail the run.
ValidateExit_WarningsFail ==
    /\ prog = "validate_input" /\ pc = "summary"
    /\ LET all_valid == /\ res.points_report[1].valid /\ res.ori_report[1].valid
                        /\ res.consistency = Some(<<>>)
       IN exitStatus' = Some(IF all_valid THEN 0 ELSE 1)
    /\ pc' = "exited"
    /\ UNCHANGED <<prog, inp, res>>

\* main, lines 284-288: print the overall verdict and exit.
ValidateExit ==
    /\ prog = "validate_input" /\ pc = "summary"
    /\ LET all_valid == res.points_report[1].valid /\ res.ori_report[1].valid
       IN exitStatus' = Some(IF all_valid THEN 0 ELSE 1)
    /\ pc' = "exited"
    /\ UNCHANGED <<prog, inp, res>>

\* Both reports exist and are valid.
BothValid ==
    /\ res.points_report # Nil /\ res.points_report[1].valid
    /\ res.ori_report # Nil /\ res.ori_report[1].valid

\* C15: main exits with status 0 if and only if both the surface-points
\* report and the orientations report are valid; check_data_consistency runs
\* only in that case, and its warnings never change the exit status.
Thm_C15_ExitStatus ==
    prog = "validate_input" =>
        /\ pc = "exited" => (exitStatus = Some(0) <=> BothValid)
        /\ res.consistency # Nil => BothValid
        /\ (pc \in {"summary", "exited"} /\ BothValid) =>
              res.consistency = Some(check_data_consistency(
                  validate_surface_points(inp.surface_points),
                  validate_orientations(inp.orientations), res.extent))

\* A run over two valid files whose consistency check warned about the
\* surfaces and about the extent, and that still ended with status 0.
Wit_C15_WarningsExitZero ==
    /\ prog = "validate_input" /\ pc = "exited"
    /\ exitStatus = Some(0)
    /\ res.consistency # Nil /\ Len(res.consistency[1]) >= 2
    /\ res.points_report[1].warnings # <<>>

(***************************************************************************)
(* lasio/scripts/merge_curves.py: main and merge_las_files.                *)
(***************************************************************************)
MaxInputs == 3      \* at most this many input files on the command line

\* An input LAS file: the mnemonic of its index curve, its other curves and
\* the depths of its rows.  A file's unit/description and values are named
\* by the position of the file among the arguments.
LasFiles ==
    [index : {"DEPT", "DEPTH"},
     curves : {<<"GR">>, <<"RHOB">>, <<"GR", "RHOB">>},
     depths : {{1, 2}, {2, 3}}]
MergeArgs ==
    [las_paths : UNION {[1..n -> LasFiles] : n \in 1..MaxInputs},
     depth_curve : {Nil, Some("DEPTH")}]

\* One column of a data frame: its name, the input file its values were
\* read from, and the depths at which it holds a value (null elsewhere).
Column(name, src, at) == [name |-> name, src |-> src, at |-> at]
Names(columns) == {columns[i].name : i \in DOMAIN columns}

\* las.df().reset_index() of the k-th input file, lines 55-57.
DataFrame(f, k) ==
    [columns |-> <<Column(f.index, k, f.depths)>>
                    \o [i \in DOMAIN f.curves |-> Column(f.curves[i], k, f.depths)],
     depths |-> f.depths]

\* Lines 60-67: the depth column, given or detected in the first frame.
depth_col(depth_curve, df) ==
    LET DepthNames == <<"DEPT", "DEPTH", "MD", "TVD">>
    IN
    IF depth_curve # Nil THEN depth_curve[1]
    ELSE IF \E i \in DOMAIN DepthNames : DepthNames[i] \in Names(df.columns)
        THEN DepthNames[CHOOSE i \in DOMAIN DepthNames :
                            /\ DepthNames[i] \in Names(df.columns)
                            /\ \A j \in 1..(i - 1) : DepthNames[j] \notin Names(df.columns)]
    ELSE df.columns[1].name

\* Lines 74-78: merged.merge(df[[depth_col] + new_cols], on=depth_col,
\* how="outer"); Nil stands for the KeyError of a frame without depth_col.
OuterMerge(merged, df, dc) ==
    LET new_cols == SelectSeq(df.columns, LAMBDA c : c.name \notin Names(merged.columns))
    IN IF new_cols = <<>> THEN Some(merged)
       ELSE IF dc \notin Names(df.columns) \/ dc \notin Names(merged.columns) THEN Nil
       ELSE LET depths == merged.depths \cup df.depths
            IN Some([columns |->
                        [i \in DOMAIN merged.columns |->
                            IF merged.columns[i].name = dc
                                THEN [merged.columns[i] EXCEPT !.at = depths]
                                ELSE merged.columns[i]] \o new_cols,
                     depths |-> depths])

InitMerge ==
    /\ prog = "merge_curves"
    /\ pc = "main"
    /\ exitStatus = Nil
    /\ inp \in MergeArgs
    /\ res = [dfs |-> <<>>, curve_info |-> {}, depth_col |-> Nil, merged |-> Nil,
              k |-> 0, las |-> Nil]

\* main, lines 144-146: fewer than two files is an error.
MergeMain ==
    /\ prog = "merge_curves" /\ pc = "main"
    /\ IF Len(inp.las_paths) < 2
          THEN pc' = "exited" /\ exitStatus' = Some(1)
          ELSE pc' = "read" /\ UNCHANGED exitStatus
    /\ UNCHANGED <<prog, inp, res>>

\* Variant of MergeRead: the curve metadata of a later file replaces that of
\* an earlier one.
MergeRead_LastWins ==
    /\ prog = "merge_curves" /\ pc = "read"
    /\ Len(res.dfs) < Len(inp.las_paths)
    /\ LET k == Len(res.dfs) + 1
           df == DataFrame(inp.las_paths[k], k)
       IN \E ok \in BOOLEAN :
             IF ok
                THEN /\ res' = [res EXCEPT
                            !.dfs = Append(@, df),
                            !.curve_info =
                                {ci \in @ : ci[1] \notin Names(df.columns)}
                                    \cup {<<n, k>> : n \in Names(df.columns)}]
                     /\ UNCHANGED <<pc, exitStatus>>
                ELSE pc' = "exited" /\ exitStatus' = Some(1) /\ UNCHANGED res
    /\ UNCHANGED <<prog, inp>>

\* merge_las_files, lines 40-57: read the next file, keep the metadata of the
\* curves not seen before; lasio.read either returns or raises.
MergeRead ==
    /\ prog = "merge_curves" /\ pc = "read"
    /\ Len(res.dfs) < Len(inp.las_paths)
    /\ LET k == Len(res.dfs) + 1
           df == DataFrame(inp.las_paths[k], k)
       IN \E ok \in BOOLEAN :
             IF ok
                THEN /\ res' = [res EXCEPT
                            !.dfs = Append(@, df),
                            !.curve_info =
                                @ \cup {<<n, k>> : n \in
                                          {x \in Names(df.columns) :
                                              \A ci \in res.curve_info : ci[1] # x}}]
                     /\ UNCHANGED <<pc, exitStatus>>
                ELSE pc' = "exited" /\ exitStatus' = Some(1) /\ UNCHANGED res
    /\ UNCHANGED <<prog, inp>>

\* merge_las_files, lines 60-70: choose the depth column and start from the
\* first frame.
MergeStart ==
    /\ prog = "merge_curves" /\ pc = "read"
    /\ Len(res.dfs) = Len(inp.las_paths)
    /\ res' = [res EXCEPT !.depth_col = Some(depth_col(inp.depth_curve, res.dfs[1])),
                          !.merged = Some(res.dfs[1]),
                          !.k = 1]
    /\ pc' = "merge"
    /\ UNCHANGED <<prog, inp, exitStatus>>

\* merge_las_files, lines 71-78: add the next frame's new columns.
MergeNext ==
    /\ prog = "merge_curves" /\ pc = "merge"
    /\ res.k < Len(res.dfs)
    /\ LET m == OuterMerge(res.merged[1], res.dfs[res.k + 1], res.depth_col[1])
       IN IF m = Nil
             THEN pc' = "exited" /\ exitStatus' = Some(1) /\ UNCHANGED res
             ELSE /\ res' = [res EXCEPT !.merged = m, !.k = @ + 1]
                  /\ UNCHANGED <<pc, exitStatus>>
    /\ UNCHANGED <<prog, inp>>

\* The curve of the output file made from a merged column, lines 115-119:
\* unit and description of the file recorded in curve_info (0: empty).
OutputCurve(col, curve_info) ==
    [mnemonic |-> col.name, src |-> col.src, at |-> col.at,
     unit_from |-> IF \E ci \in curve_info : ci[1] = col.name
                      THEN (CHOOSE ci \in curve_info : ci[1] = col.name)[2]
                      ELSE 0]

\* merge_las_files, lines 81-122: sort by depth (KeyError without the depth
\* column), then write every merged column as a curve.
MergeWrite ==
    /\ prog = "merge_curves" /\ pc = "merge"
    /\ res.k = Len(res.dfs)
    /\ IF res.depth_col[1] \notin Names(res.merged[1].columns)
          THEN exitStatus' = Some(1) /\ UNCHANGED res
          ELSE /\ res' = [res EXCEPT !.las =
                            Some([i \in DOMAIN res.merged[1].columns |->
                                    OutputCurve(res.merged[1].columns[i], res.curve_info)])]
               /\ exitStatus' = Some(0)
    /\ pc' = "exited"
    /\ UNCHANGED <<prog, inp>>

\* merge_las_files has written its output file.
Merged == prog = "merge_curves" /\ res.las # Nil

\* The mnemonics of the k-th input file, and the first file holding c.
Mnemonics(k) == {inp.las_paths[k].index} \cup Range(inp.las_paths[k].curves)
FirstWith(c) ==
    CHOOSE k \in DOMAIN inp.las_paths :
        /\ c \in Mnemonics(k)
        /\ \A j \in 1..(k - 1) : c \notin Mnemonics(j)
\* The curves of the output file that are named c.
CurvesNamed(c) == {i \in DOMAIN res.las[1] : res.las[1][i].mnemonic = c}

Contributors ==
    {k \in DOMAIN inp.las_paths :
        k = 1 \/ \E c \in Mnemonics(k) : FirstWith(c) = k}

MaxRegistryFiles == 3   \* at most this many regular files below the directory

\* Paths relative to the directory, one name per component, listed in the
\* order of sorted() on Path objects (component by component).
PathOrder ==
    << <<F(".DS_Store", "")>>, <<F(".git", ""), F("config", "")>>, <<F("a", "csv")>>,
       <<F("b", "pyc")>>, <<F("sub", ""), F("c", "csv")>> >>
Trees == {t \in SUBSET Range(PathOrder) : Cardinality(t) <= MaxRegistryFiles}

\* The default of the exclude parameter, line 39: .git, __pycache__, *.pyc,
\* .DS_Store.
DefaultExclude ==
    <<F(".git", ""), F("__pycache__", ""), F("*", "pyc"), F(".DS_Store", "")>>
Excludes == {Nil, Some(<<>>), Some(<<F("*", "csv")>>)}

\* Path.match(pattern) for a pattern of one component: the last component of
\* the path is compared with the pattern.
Match(path, pattern) ==
    LET name == path[Len(path)]
    IN (pattern.stem = "*" \/ pattern.stem = name.stem) /\ pattern.ext = name.ext

\* exclude or [...], line 39: None and the empty list give the default.
EffectiveExclude(exclude) ==
    IF exclude = Nil \/ exclude[1] = <<>> THEN DefaultExclude ELSE exclude[1]

\* directory.glob(pattern), line 48: the entries below the directory, files
\* and the directories that hold them; "*" yields the top level only.
GlobEntries(tree, recursive) ==
    LET dirs == {SubSeq(q, 1, 1) : q \in {t \in tree : Len(t) = 2}}
        all == [path : tree, is_file : {TRUE}] \cup [path : dirs, is_file : {FALSE}]
    IN {n \in all : recursive \/ Len(n.path) = 1}

\* Lines 47-50: the regular files that match no exclude pattern.
FoundFiles(tree, recursive, exclude) ==
    {n.path : n \in {g \in GlobEntries(tree, recursive) :
                        /\ g.is_file
                        /\ \A i \in DOMAIN exclude : ~Match(g.path, exclude[i])}}

\* sorted(files), line 58.
sorted(paths) == SelectSeq(PathOrder, LAMBDA q : q \in paths)

InitRegistry ==
    /\ prog = "create_registry"
    /\ pc = "main"
    /\ exitStatus = Nil
    /\ inp \in [is_dir : BOOLEAN, tree : Trees, recursive : BOOLEAN,
                exclude : Excludes, algorithm : {"sha256", "md5"},
                output : {Nil, Some("registry.txt")}]
    /\ res = [files |-> <<>>, done |-> 0, registry |-> <<>>, failed |-> {},
              raised |-> Nil, stderr |-> 0, stdout |-> Nil, written |-> Nil,
              returned |-> Nil]

\* create_registry, lines 39-54: reject a non-directory, collect the files;
\* without files a message goes to stderr and {} is returned.
RegistryScan ==
    /\ prog = "create_registry" /\ pc = "main"
    /\ IF ~inp.is_dir
          THEN res' = [res EXCEPT !.raised = Some("ValueError")] /\ pc' = "raised"
       ELSE LET found == FoundFiles(inp.tree, inp.recursive, EffectiveExclude(inp.exclude))
            IN IF found = {}
                  THEN /\ res' = [res EXCEPT !.stderr = @ + 1, !.returned = Some(<<>>)]
                       /\ pc' = "returned"
                  ELSE /\ res' = [res EXCEPT !.files = sorted(found)]
                       /\ pc' = "hash"
    /\ UNCHANGED <<prog, inp, exitStatus>>

\* Variant of RegistryHash: a file whose hashing raises ends the run.
RegistryHash_Abort ==
    /\ prog = "create_registry" /\ pc = "hash"
    /\ res.done < Len(res.files)
    /\ LET filepath == res.files[res.done + 1]
       IN \E ok \in BOOLEAN :
             IF ok
                THEN /\ res' = [res EXCEPT
                            !.registry = Append(@, <<filepath, <<inp.algorithm, filepath>>>>),
                            !.stderr = @ + 1,
                            !.done = @ + 1]
                     /\ UNCHANGED pc
                ELSE /\ res' = [res EXCEPT !.failed = @ \cup {filepath},
                                           !.raised = Some("OSError")]
                     /\ pc' = "raised"
    /\ UNCHANGED <<prog, inp, exitStatus>>

\* create_registry, lines 58-65: hash the next file; the entry is added when
\* pooch.file_hash returns, an error line is printed when it raises.
RegistryHash ==
    /\ prog = "create_registry" /\ pc = "hash"
    /\ res.done < Len(res.files)
    /\ LET filepath == res.files[res.done + 1]
       IN \E ok \in BOOLEAN :
             res' = [res EXCEPT
                        !.registry = IF ok
                            THEN Append(@, <<filepath, <<inp.algorithm, filepath>>>>)
                            ELSE @,
                        !.failed = IF ok THEN @ ELSE @ \cup {filepath},
                        !.stderr = @ + 1,
                        !.done = @ + 1]
    /\ UNCHANGED <<prog, inp, pc, exitStatus>>

\* create_registry, lines 68-77: write the lines to the output file or to
\* stdout and return the registry.
RegistryOutput ==
    /\ prog = "create_registry" /\ pc = "hash"
    /\ res.done = Len(res.files)
    /\ res' = [res EXCEPT
                  !.written = IF inp.output # Nil THEN Some(res.registry) ELSE @,
                  !.stdout = IF inp.output # Nil THEN @ ELSE Some(res.registry),
                  !.stderr = IF inp.output # Nil THEN @ + 1 ELSE @,
                  !.returned = Some(res.registry)]
    /\ pc' = "returned"
    /\ UNCHANGED <<prog, inp, exitStatus>>

\* main, lines 123-139: print the total, or the error and exit with 1.
RegistryExit ==
    /\ prog = "create_registry" /\ pc \in {"returned", "raised"}
    /\ exitStatus' = Some(IF pc = "returned" THEN 0 ELSE 1)
    /\ res' = [res EXCEPT !.stderr = @ + 1]
    /\ pc' = "exited"
    /\ UNCHANGED <<prog, inp>>

\* The call of create_registry has ended, by return or by an exception.
RegistryCalled == prog = "create_registry" /\ pc \in {"returned", "raised"}

\* The regular files found in the directory, at its top level or at any
\* depth with recursive, that match none of the exclude patterns in force.
Eligible ==
    {q \in inp.tree :
        /\ inp.recursive \/ Len(q) = 1
        /\ \A i \in DOMAIN EffectiveExclude(inp.exclude) :
              ~Match(q, EffectiveExclude(inp.exclude)[i])}

\* C17: create_registry returns one entry '<algorithm>:<hash>' per
\* non-excluded regular file found in the directory, keyed by the relative
\* path and inserted in sorted path order; a file whose hashing raises is
\* omitted without aborting the run; a non-directory argument raises
\* ValueError before any output is produced.
Thm_C17_Registry ==
    RegistryCalled =>
        IF inp.is_dir
            THEN /\ res.returned # Nil /\ res.raised = Nil
                 /\ LET registry == res.returned[1]
                    IN /\ {registry[i][1] : i \in DOMAIN registry} = Eligible \ res.failed
                       /\ \A i, j \in DOMAIN registry : i # j => registry[i][1] # registry[j][1]
                       /\ \A i \in DOMAIN registry :
                             registry[i][2] = <<inp.algorithm, registry[i][1]>>
                       /\ [i \in DOMAIN registry |-> registry[i][1]]
                             = sorted(Eligible \ res.failed)
            ELSE /\ res.raised = Some("ValueError") /\ res.returned = Nil
                 /\ res.stderr = 0 /\ res.stdout = Nil /\ res.written = Nil

\* A recursive run in which one file was excluded, the hashing of one file
\* raised and a file sorted after it was still hashed.
Wit_C17_FailedThenHashed ==
    /\ RegistryCalled
    /\ inp.is_dir /\ inp.recursive
    /\ Eligible # inp.tree
    /\ \E q \in res.failed : \E i \in DOMAIN res.returned[1] :
          \E a, b \in DOMAIN PathOrder :
             a < b /\ PathOrder[a] = q /\ PathOrder[b] = res.returned[1][i][1]

(***************************************************************************)
(* Specification of the single-call scripts.                               *)
(***************************************************************************)
InitTools ==
    /\ (InitFetch \/ InitExtract \/ InitDlisToLas \/ InitLasToCsv \/ InitValidateInput
            \/ InitMerge \/ InitRegistry)
    /\ IdleBatch /\ IdleSkills /\ IdleAvo

NextTools ==
    \/ (FetchMain /\ UNCHANGED <<batchVars, summary, skillVars, avoVars>>)
    \/ (FetchWaveforms /\ UNCHANGED <<batchVars, summary, skillVars, avoVars>>)
    \/ (ExtractMain /\ UNCHANGED <<batchVars, summary, skillVars, avoVars>>)
    \/ (ExtractOpen /\ UNCHANGED <<batchVars, summary, skillVars, avoVars>>)
    \/ (ExtractCopy /\ UNCHANGED <<batchVars, summary, skillVars, avoVars>>)
    \/ (ExtractReturn /\ UNCHANGED <<batchVars, summary, skillVars, avoVars>>)
    \/ (DlisSelectFrame /\ UNCHANGED <<batchVars, summary, skillVars, avoVars>>)
    \/ (DlisWriteLas /\ UNCHANGED <<batchVars, summary, skillVars, avoVars>>)
    \/ (DlisToLasReport /\ UNCHANGED <<batchVars, summary, skillVars, avoVars>>)
    \/ (LasToCsvRead /\ UNCHANGED <<batchVars, summary, skillVars, avoVars>>)
    \/ (LasToCsvWrite /\ UNCHANGED <<batchVars, summary, skillVars, avoVars>>)
    \/ (ValidateParseExtent /\ UNCHANGED <<batchVars, summary, skillVars, avoVars>>)
    \/ (ValidateFiles /\ UNCHANGED <<batchVars, summary, skillVars, avoVars>>)
    \/ (ValidateConsistency /\ UNCHANGED <<batchVars, summary, skillVars, avoVars>>)
    \/ (ValidateExit /\ UNCHANGED <<batchVars, summary, skillVars, avoVars>>)
    \/ (MergeMain /\ UNCHANGED <<batchVars, summary, skillVars, avoVars>>)
    \/ (MergeRead /\ UNCHANGED <<batchVars, summary, skillVars, avoVars>>)
    \/ (MergeStart /\ UNCHANGED <<batchVars, summary, skillVars, avoVars>>)
    \/ (MergeNext /\ UNCHANGED <<batchVars, summary, skillVars, avoVars>>)
    \/ (MergeWrite /\ UNCHANGED <<batchVars, summary, skillVars, avoVars>>)
    \/ (RegistryScan /\ UNCHANGED <<batchVars, summary, skillVars, avoVars>>)
    \/ (RegistryHash /\ UNCHANGED <<batchVars, summary, skillVars, avoVars>>)
    \/ (RegistryOutput /\ UNCHANGED <<batchVars, summary, skillVars, avoVars>>)
    \/ (RegistryExit /\ UNCHANGED <<batchVars, summary, skillVars, avoVars>>)

SpecTools == InitTools /\ [][NextTools]_vars

====
